---- MODULE Spec2Model ----
\* Skin toxicity guide (src/skin_toxicity_streamlit_app.py): the guidance lookup
\* table, the PDF export and the Streamlit script that calls them.
\*
\* A text (Python str) is a sequence of Unicode code points, so that lower(),
\* replace(), the f-strings and the latin-1 encoding of the PDF core font are
\* computed character by character.  The text is quoted in a comment next to
\* each sequence.
EXTENDS Integers, Sequences, FiniteSets, TLC

\* ---------------------------------------------------------------- bounds
NumSessions == 2   \* script threads / callers running side by side
MaxOps == 2        \* interactions and calls started in one behaviour
MaxTicks == 1      \* midnights that pass in one behaviour

\* ---------------------------------------------------------------- state
VARIABLES
  fs,          \* the working directory: path -> content of the file
  today,       \* the date of the last reading of datetime.date.today()
  ticks,       \* midnights passed between readings
  pc,          \* where each thread is
  mode,        \* "ui": running the script; "api": a direct call
  treatment,   \* value of the selectbox of each session
  clicked,     \* st.button(...) of the current script run
  looked,      \* the argument of the thread's last lookup
  data,        \* result of the thread's last lookup
  args,        \* arguments of the thread's current generate_pdf call
  pdf,         \* the FPDF object's page in that call
  path,        \* the local `path` of that call
  ret,         \* how that call ended: a returned path or a raised exception
  download,    \* data of the download button of the current script run
  lastWrite,   \* history: path -> what the last open-for-writing or write put there
  nops         \* interactions and calls started

vars == << fs, today, ticks, pc, mode, treatment, clicked, looked, data,
           args, pdf, path, ret, download, lastWrite, nops >>

shared == << fs, today, ticks >>
call_locals == << args, pdf, path, ret >>

\* ------------------------------------------------------- guidance data
\* The four keys of the guidance dict (src lines 10, 28, 45, 61).
Chemotherapy == <<67, 104, 101, 109, 111, 116, 104, 101, 114, 97, 112, 121>>  \* "Chemotherapy"
TargetedTherapy == <<84, 97, 114, 103, 101, 116, 101, 100, 32, 84, 104, 101, 114, 97, 112, 121>>  \* "Targeted Therapy"
RadiationTherapy == <<82, 97, 100, 105, 97, 116, 105, 111, 110, 32, 84, 104, 101, 114, 97, 112, 121>>  \* "Radiation Therapy"
Immunotherapy == <<73, 109, 109, 117, 110, 111, 116, 104, 101, 114, 97, 112, 121>>  \* "Immunotherapy"

\* The dict literal of get_skin_toxicity_guidance: key -> {"Proactive", "Reactive", "AEs"},
\* each a list of texts in the order of the source.
guidance ==
  (Chemotherapy :> [
    Proactive |-> <<
      \* "Gentle cleanser (pH ~5)"
      <<71, 101, 110, 116, 108, 101, 32, 99, 108, 101, 97, 110, 115, 101, 114, 32, 40, 112, 72, 32, 126, 53, 41>>,
      \* "Emollients with niacinamide, ceramides, shea butter"
      <<69, 109, 111, 108, 108, 105, 101, 110, 116, 115, 32, 119, 105, 116, 104, 32, 110, 105, 97, 99, 105, 110, 97, 109, 105, 100, 101, 44, 32, 99, 101, 114, 97, 109, 105, 100, 101, 115, 44, 32, 115, 104, 101, 97, 32, 98, 117, 116, 116, 101, 114>>,
      \* "Broad-spectrum sunscreen (SPF <U+2265> 50)"
      <<66, 114, 111, 97, 100, 45, 115, 112, 101, 99, 116, 114, 117, 109, 32, 115, 117, 110, 115, 99, 114, 101, 101, 110, 32, 40, 83, 80, 70, 32, 8805, 32, 53, 48, 41>>,
      \* "Scalp cooling for alopecia"
      <<83, 99, 97, 108, 112, 32, 99, 111, 111, 108, 105, 110, 103, 32, 102, 111, 114, 32, 97, 108, 111, 112, 101, 99, 105, 97>>,
      \* "Urea cream (10%) for hand-foot prevention"
      <<85, 114, 101, 97, 32, 99, 114, 101, 97, 109, 32, 40, 49, 48, 37, 41, 32, 102, 111, 114, 32, 104, 97, 110, 100, 45, 102, 111, 111, 116, 32, 112, 114, 101, 118, 101, 110, 116, 105, 111, 110>>
    >>,
    Reactive |-> <<
      \* "Urea 3<U+2013>10% creams for xerosis"
      <<85, 114, 101, 97, 32, 51, 8211, 49, 48, 37, 32, 99, 114, 101, 97, 109, 115, 32, 102, 111, 114, 32, 120, 101, 114, 111, 115, 105, 115>>,
      \* "TCS/TCI for pruritus and rash"
      <<84, 67, 83, 47, 84, 67, 73, 32, 102, 111, 114, 32, 112, 114, 117, 114, 105, 116, 117, 115, 32, 97, 110, 100, 32, 114, 97, 115, 104>>,
      \* "Oral antihistamines"
      <<79, 114, 97, 108, 32, 97, 110, 116, 105, 104, 105, 115, 116, 97, 109, 105, 110, 101, 115>>,
      \* "Topical steroids or NSAIDs for photosensitivity"
      <<84, 111, 112, 105, 99, 97, 108, 32, 115, 116, 101, 114, 111, 105, 100, 115, 32, 111, 114, 32, 78, 83, 65, 73, 68, 115, 32, 102, 111, 114, 32, 112, 104, 111, 116, 111, 115, 101, 110, 115, 105, 116, 105, 118, 105, 116, 121>>,
      \* "Oral dexamethasone for HFS"
      <<79, 114, 97, 108, 32, 100, 101, 120, 97, 109, 101, 116, 104, 97, 115, 111, 110, 101, 32, 102, 111, 114, 32, 72, 70, 83>>,
      \* "Minoxidil or microblading for alopecia"
      <<77, 105, 110, 111, 120, 105, 100, 105, 108, 32, 111, 114, 32, 109, 105, 99, 114, 111, 98, 108, 97, 100, 105, 110, 103, 32, 102, 111, 114, 32, 97, 108, 111, 112, 101, 99, 105, 97>>
    >>,
    AEs |-> <<
      \* "Xerosis"
      <<88, 101, 114, 111, 115, 105, 115>>,
      \* "Pruritus"
      <<80, 114, 117, 114, 105, 116, 117, 115>>,
      \* "Photosensitivity"
      <<80, 104, 111, 116, 111, 115, 101, 110, 115, 105, 116, 105, 118, 105, 116, 121>>,
      \* "Alopecia"
      <<65, 108, 111, 112, 101, 99, 105, 97>>,
      \* "HFS"
      <<72, 70, 83>>
    >>
  ]) @@
  (TargetedTherapy :> [
    Proactive |-> <<
      \* "Gentle cleanser (pH ~5)"
      <<71, 101, 110, 116, 108, 101, 32, 99, 108, 101, 97, 110, 115, 101, 114, 32, 40, 112, 72, 32, 126, 53, 41>>,
      \* "Emollients supporting microbiome (niacinamide, ceramides)"
      <<69, 109, 111, 108, 108, 105, 101, 110, 116, 115, 32, 115, 117, 112, 112, 111, 114, 116, 105, 110, 103, 32, 109, 105, 99, 114, 111, 98, 105, 111, 109, 101, 32, 40, 110, 105, 97, 99, 105, 110, 97, 109, 105, 100, 101, 44, 32, 99, 101, 114, 97, 109, 105, 100, 101, 115, 41>>,
      \* "SPF <U+2265> 50 sunscreen, UV protective clothing"
      <<83, 80, 70, 32, 8805, 32, 53, 48, 32, 115, 117, 110, 115, 99, 114, 101, 101, 110, 44, 32, 85, 86, 32, 112, 114, 111, 116, 101, 99, 116, 105, 118, 101, 32, 99, 108, 111, 116, 104, 105, 110, 103>>,
      \* "Oral doxycycline/minocycline for EGFR rash"
      <<79, 114, 97, 108, 32, 100, 111, 120, 121, 99, 121, 99, 108, 105, 110, 101, 47, 109, 105, 110, 111, 99, 121, 99, 108, 105, 110, 101, 32, 102, 111, 114, 32, 69, 71, 70, 82, 32, 114, 97, 115, 104>>,
      \* "Urea 10% for HFS prevention"
      <<85, 114, 101, 97, 32, 49, 48, 37, 32, 102, 111, 114, 32, 72, 70, 83, 32, 112, 114, 101, 118, 101, 110, 116, 105, 111, 110>>
    >>,
    Reactive |-> <<
      \* "Topical and systemic steroids for rash/acneiform rash"
      <<84, 111, 112, 105, 99, 97, 108, 32, 97, 110, 100, 32, 115, 121, 115, 116, 101, 109, 105, 99, 32, 115, 116, 101, 114, 111, 105, 100, 115, 32, 102, 111, 114, 32, 114, 97, 115, 104, 47, 97, 99, 110, 101, 105, 102, 111, 114, 109, 32, 114, 97, 115, 104>>,
      \* "Barrier repair creams for folliculitis"
      <<66, 97, 114, 114, 105, 101, 114, 32, 114, 101, 112, 97, 105, 114, 32, 99, 114, 101, 97, 109, 115, 32, 102, 111, 114, 32, 102, 111, 108, 108, 105, 99, 117, 108, 105, 116, 105, 115>>,
      \* "Urea 10<U+2013>40% for hyperkeratotic HFS"
      <<85, 114, 101, 97, 32, 49, 48, 8211, 52, 48, 37, 32, 102, 111, 114, 32, 104, 121, 112, 101, 114, 107, 101, 114, 97, 116, 111, 116, 105, 99, 32, 72, 70, 83>>,
      \* "Painkillers, lidocaine patches for HFS pain"
      <<80, 97, 105, 110, 107, 105, 108, 108, 101, 114, 115, 44, 32, 108, 105, 100, 111, 99, 97, 105, 110, 101, 32, 112, 97, 116, 99, 104, 101, 115, 32, 102, 111, 114, 32, 72, 70, 83, 32, 112, 97, 105, 110>>,
      \* "Minoxidil or PRP for alopecia"
      <<77, 105, 110, 111, 120, 105, 100, 105, 108, 32, 111, 114, 32, 80, 82, 80, 32, 102, 111, 114, 32, 97, 108, 111, 112, 101, 99, 105, 97>>
    >>,
    AEs |-> <<
      \* "Acneiform rash"
      <<65, 99, 110, 101, 105, 102, 111, 114, 109, 32, 114, 97, 115, 104>>,
      \* "Folliculitis"
      <<70, 111, 108, 108, 105, 99, 117, 108, 105, 116, 105, 115>>,
      \* "Photosensitivity"
      <<80, 104, 111, 116, 111, 115, 101, 110, 115, 105, 116, 105, 118, 105, 116, 121>>,
      \* "Alopecia"
      <<65, 108, 111, 112, 101, 99, 105, 97>>,
      \* "Hyperkeratotic HFS"
      <<72, 121, 112, 101, 114, 107, 101, 114, 97, 116, 111, 116, 105, 99, 32, 72, 70, 83>>
    >>
  ]) @@
  (RadiationTherapy :> [
    Proactive |-> <<
      \* "pH-balanced cleanser"
      <<112, 72, 45, 98, 97, 108, 97, 110, 99, 101, 100, 32, 99, 108, 101, 97, 110, 115, 101, 114>>,
      \* "Daily moisturizer (not within 2hr of session)"
      <<68, 97, 105, 108, 121, 32, 109, 111, 105, 115, 116, 117, 114, 105, 122, 101, 114, 32, 40, 110, 111, 116, 32, 119, 105, 116, 104, 105, 110, 32, 50, 104, 114, 32, 111, 102, 32, 115, 101, 115, 115, 105, 111, 110, 41>>,
      \* "Broad-spectrum sunscreen"
      <<66, 114, 111, 97, 100, 45, 115, 112, 101, 99, 116, 114, 117, 109, 32, 115, 117, 110, 115, 99, 114, 101, 101, 110>>,
      \* "Aloe vera from day 1"
      <<65, 108, 111, 101, 32, 118, 101, 114, 97, 32, 102, 114, 111, 109, 32, 100, 97, 121, 32, 49>>
    >>,
    Reactive |-> <<
      \* "Zinc oxide or silver sulfadiazine for dermatitis"
      <<90, 105, 110, 99, 32, 111, 120, 105, 100, 101, 32, 111, 114, 32, 115, 105, 108, 118, 101, 114, 32, 115, 117, 108, 102, 97, 100, 105, 97, 122, 105, 110, 101, 32, 102, 111, 114, 32, 100, 101, 114, 109, 97, 116, 105, 116, 105, 115>>,
      \* "Mid-potency topical steroids (e.g., betamethasone)"
      <<77, 105, 100, 45, 112, 111, 116, 101, 110, 99, 121, 32, 116, 111, 112, 105, 99, 97, 108, 32, 115, 116, 101, 114, 111, 105, 100, 115, 32, 40, 101, 46, 103, 46, 44, 32, 98, 101, 116, 97, 109, 101, 116, 104, 97, 115, 111, 110, 101, 41>>,
      \* "Sterile dressings or hydrogel pads"
      <<83, 116, 101, 114, 105, 108, 101, 32, 100, 114, 101, 115, 115, 105, 110, 103, 115, 32, 111, 114, 32, 104, 121, 100, 114, 111, 103, 101, 108, 32, 112, 97, 100, 115>>,
      \* "Monitor for infection and use antibiotics if needed"
      <<77, 111, 110, 105, 116, 111, 114, 32, 102, 111, 114, 32, 105, 110, 102, 101, 99, 116, 105, 111, 110, 32, 97, 110, 100, 32, 117, 115, 101, 32, 97, 110, 116, 105, 98, 105, 111, 116, 105, 99, 115, 32, 105, 102, 32, 110, 101, 101, 100, 101, 100>>,
      \* "Pentoxifylline + vitamin E for chronic fibrosis"
      <<80, 101, 110, 116, 111, 120, 105, 102, 121, 108, 108, 105, 110, 101, 32, 43, 32, 118, 105, 116, 97, 109, 105, 110, 32, 69, 32, 102, 111, 114, 32, 99, 104, 114, 111, 110, 105, 99, 32, 102, 105, 98, 114, 111, 115, 105, 115>>
    >>,
    AEs |-> <<
      \* "Acute radiation dermatitis"
      <<65, 99, 117, 116, 101, 32, 114, 97, 100, 105, 97, 116, 105, 111, 110, 32, 100, 101, 114, 109, 97, 116, 105, 116, 105, 115>>,
      \* "Chronic dermatitis"
      <<67, 104, 114, 111, 110, 105, 99, 32, 100, 101, 114, 109, 97, 116, 105, 116, 105, 115>>,
      \* "Photosensitivity"
      <<80, 104, 111, 116, 111, 115, 101, 110, 115, 105, 116, 105, 118, 105, 116, 121>>
    >>
  ]) @@
  (Immunotherapy :> [
    Proactive |-> <<
      \* "Gentle cleanser"
      <<71, 101, 110, 116, 108, 101, 32, 99, 108, 101, 97, 110, 115, 101, 114>>,
      \* "Moisturizers with niacinamide or ceramides"
      <<77, 111, 105, 115, 116, 117, 114, 105, 122, 101, 114, 115, 32, 119, 105, 116, 104, 32, 110, 105, 97, 99, 105, 110, 97, 109, 105, 100, 101, 32, 111, 114, 32, 99, 101, 114, 97, 109, 105, 100, 101, 115>>,
      \* "Broad-spectrum sunscreen"
      <<66, 114, 111, 97, 100, 45, 115, 112, 101, 99, 116, 114, 117, 109, 32, 115, 117, 110, 115, 99, 114, 101, 101, 110>>
    >>,
    Reactive |-> <<
      \* "Topical steroids and antihistamines for rash or xerosis"
      <<84, 111, 112, 105, 99, 97, 108, 32, 115, 116, 101, 114, 111, 105, 100, 115, 32, 97, 110, 100, 32, 97, 110, 116, 105, 104, 105, 115, 116, 97, 109, 105, 110, 101, 115, 32, 102, 111, 114, 32, 114, 97, 115, 104, 32, 111, 114, 32, 120, 101, 114, 111, 115, 105, 115>>,
      \* "Oral corticosteroids for Grade <U+2265> 3 reactions"
      <<79, 114, 97, 108, 32, 99, 111, 114, 116, 105, 99, 111, 115, 116, 101, 114, 111, 105, 100, 115, 32, 102, 111, 114, 32, 71, 114, 97, 100, 101, 32, 8805, 32, 51, 32, 114, 101, 97, 99, 116, 105, 111, 110, 115>>,
      \* "Supportive treatments for pigmentation changes"
      <<83, 117, 112, 112, 111, 114, 116, 105, 118, 101, 32, 116, 114, 101, 97, 116, 109, 101, 110, 116, 115, 32, 102, 111, 114, 32, 112, 105, 103, 109, 101, 110, 116, 97, 116, 105, 111, 110, 32, 99, 104, 97, 110, 103, 101, 115>>
    >>,
    AEs |-> <<
      \* "Xerosis"
      <<88, 101, 114, 111, 115, 105, 115>>,
      \* "Rash"
      <<82, 97, 115, 104>>,
      \* "Pigmentation changes"
      <<80, 105, 103, 109, 101, 110, 116, 97, 116, 105, 111, 110, 32, 99, 104, 97, 110, 103, 101, 115>>
    >>
  ])

\* ------------------------------------------------------------ str helpers
\* str.lower(): A-Z and the upper-case letters of Latin-1 move 32 up.
lower(s) ==
  [i \in 1..Len(s) |->
     IF s[i] \in 65..90 \/ s[i] \in 192..214 \/ s[i] \in 216..222
     THEN s[i] + 32 ELSE s[i]]

\* str.replace(old, new) for one-character old and new.
replace(s, old, new) == [i \in 1..Len(s) |-> IF s[i] = old THEN new ELSE s[i]]

\* n as decimal digits, zero-padded to width w (the %04d / %02d of isoformat).
RECURSIVE zfill(_, _)
zfill(n, w) == IF w = 0 THEN <<>> ELSE zfill(n \div 10, w - 1) \o <<48 + (n % 10)>>

\* str(datetime.date) is date.isoformat(): YYYY-MM-DD.
str_date(d) == zfill(d.year, 4) \o <<45>> \o zfill(d.month, 2) \o <<45>> \o zfill(d.day, 2)

\* The calendar behind datetime.date.today(): the day after d.
IsLeap(y) == (y % 4 = 0 /\ y % 100 # 0) \/ y % 400 = 0
DaysIn(y, m) ==
  IF m = 2 THEN (IF IsLeap(y) THEN 29 ELSE 28)
  ELSE IF m \in {4, 6, 9, 11} THEN 30 ELSE 31
NextDay(d) ==
  IF d.day < DaysIn(d.year, d.month) THEN [d EXCEPT !.day = d.day + 1]
  ELSE IF d.month < 12 THEN [d EXCEPT !.month = d.month + 1, !.day = 1]
  ELSE [year |-> d.year + 1, month |-> 1, day |-> 1]

\* ------------------------------------------------------------- the lookup
\* Python None.
None == [py |-> "None"]

\* d[key]: KeyError for an absent key.
dict_getitem(d, key) == IF key \in DOMAIN d THEN d[key] ELSE [py |-> "KeyError"]

\* dict.get(key): the value, or None when the key is absent (never KeyError).
dict_get(d, key) == IF key \in DOMAIN d THEN d[key] ELSE None

\* seq in reverse order.
reversed(seq) == [i \in 1..Len(seq) |-> seq[Len(seq) + 1 - i]]

\* A lookup that normalises its argument although the keys are capitalised.
get_lowercased(treatment_type) == dict_get(guidance, lower(treatment_type))

\* A lookup that hands out the adverse events in another order.
get_reordered(treatment_type) ==
  LET r == dict_get(guidance, treatment_type) IN
    IF r = None THEN None ELSE [r EXCEPT !["AEs"] = reversed(@)]

\* A lookup into a table shared between calls, whose lists an export has
\* changed in place.
get_shared_table(treatment_type) ==
  LET r == dict_get(guidance, treatment_type) IN
    IF r = None \/ DOMAIN fs = {} THEN r ELSE [r EXCEPT !["AEs"] = reversed(@)]

\* line 75: return guidance.get(treatment_type)
get_skin_toxicity_guidance(treatment_type) == dict_get(guidance, treatment_type)

\* The options of the selectbox, in order (line 126); index 0 is the default.
Options == <<Chemotherapy, TargetedTherapy, RadiationTherapy, Immunotherapy>>

\* ------------------------------------------------------------ generate_pdf
TitlePrefix == <<83, 107, 105, 110, 32, 84, 111, 120, 105, 99, 105, 116, 121, 32, 71, 117, 105, 100, 101, 32, 102, 111, 114, 32>>  \* "Skin Toxicity Guide for "
GeneratedOn == <<71, 101, 110, 101, 114, 97, 116, 101, 100, 32, 111, 110, 32>>  \* "Generated on "
HeaderAEs == <<76, 105, 107, 101, 108, 121, 32, 65, 100, 118, 101, 114, 115, 101, 32, 69, 118, 101, 110, 116, 115, 58>>  \* "Likely Adverse Events:"
HeaderProactive == <<10, 80, 114, 111, 97, 99, 116, 105, 118, 101, 32, 77, 101, 97, 115, 117, 114, 101, 115, 58>>  \* "\nProactive Measures:"
HeaderReactive == <<10, 82, 101, 97, 99, 116, 105, 118, 101, 32, 77, 101, 97, 115, 117, 114, 101, 115, 58>>  \* "\nReactive Measures:"
Dash == <<45, 32>>  \* "- "
PathPrefix == <<115, 107, 105, 110, 95, 116, 111, 120, 105, 99, 105, 116, 121, 95>>  \* "skin_toxicity_"
PathSuffix == <<46, 112, 100, 102>>  \* ".pdf"

\* pdf.cell(200, 10, txt=..., ln=True[, align='C']) under the font style set
\* before it: one line of text on the page.
cell(txt, style, align) == [op |-> "cell", txt |-> txt, style |-> style, align |-> align]
\* pdf.ln(10): blank spacing.
ln == [op |-> "ln", txt |-> <<>>, style |-> "", align |-> ""]

\* for item in items: pdf.cell(200, 10, txt=f"- {item}", ln=True)
items_cells(items) == [i \in 1..Len(items) |-> cell(Dash \o items[i], "", "")]

\* lines 81-104: what generate_pdf puts on the page, date being the value of
\* datetime.date.today() when line 85 runs.
page(treatment_type, proactive, reactive, aes, date) ==
  << cell(TitlePrefix \o treatment_type, "", "C"),
     cell(GeneratedOn \o str_date(date), "", "C"),
     ln,
     cell(HeaderAEs, "B", "") >> \o items_cells(aes)
  \o << cell(HeaderProactive, "B", "") >> \o items_cells(proactive)
  \o << cell(HeaderReactive, "B", "") >> \o items_cells(reactive)

\* A path that keeps the spaces of the category.
path_with_spaces(treatment_type) == PathPrefix \o lower(treatment_type) \o PathSuffix

\* A path that does not depend on the category.
path_fixed(treatment_type) == PathPrefix \o <<103, 117, 105, 100, 101>> \o PathSuffix  \* "skin_toxicity_guide.pdf"

\* line 106: path = f"skin_toxicity_{treatment_type.lower().replace(' ', '_')}.pdf"
path_of(treatment_type) == PathPrefix \o replace(lower(treatment_type), 32, 95) \o PathSuffix

\* The core font "Arial" (line 83) is written in latin-1: a page is encodable
\* when every character of every cell is at most U+00FF.  The library raises
\* (UnicodeEncodeError) otherwise, in cell() or in output() depending on its
\* version, in both cases before the file is opened.
latin1_encodable(p) == \A i \in 1..Len(p) : \A j \in 1..Len(p[i].txt) : p[i].txt[j] <= 255

\* A write of `new` at offset 0 through a descriptor of its own into a file
\* that holds `old`: what lies beyond the written part stays.
write_at_0(old, new) ==
  IF Len(old) > Len(new) THEN new \o SubSeq(old, Len(new) + 1, Len(old)) ELSE new

\* ------------------------------------------------------------- UI elements
SubheaderAEs == <<128300, 32, 76, 105, 107, 101, 108, 121, 32, 83, 107, 105, 110, 32, 65, 100, 118, 101, 114, 115, 101, 32, 69, 118, 101, 110, 116, 115>>  \* "<U+1F52C> Likely Skin Adverse Events"
SubheaderProactive == <<9989, 32, 80, 114, 111, 97, 99, 116, 105, 118, 101, 32, 77, 101, 97, 115, 117, 114, 101, 115>>  \* "<U+2705> Proactive Measures"
SubheaderReactive == <<129657, 32, 82, 101, 97, 99, 116, 105, 118, 101, 32, 77, 101, 97, 115, 117, 114, 101, 115>>  \* "<U+1FA79> Reactive Measures"
ButtonLabel == <<128229, 32, 68, 111, 119, 110, 108, 111, 97, 100, 32, 97, 115, 32, 80, 68, 70>>  \* "<U+1F4E5> Download as PDF"
DownloadLabel == <<68, 111, 119, 110, 108, 111, 97, 100, 32, 80, 68, 70>>  \* "Download PDF"

element(el, txt) == [el |-> el, txt |-> txt]
\* for x in items: st.markdown(f"- {x}")
markdowns(items) == [i \in 1..Len(items) |-> element("markdown", Dash \o items[i])]

\* Python truth value of the lookup result in `if data:` (line 129): None and
\* the empty dict are false.
truthy(v) == v # None /\ DOMAIN v # {}

\* lines 130-143: the elements the script emits when data is truthy.
sections(d) ==
     << element("subheader", SubheaderAEs) >> \o markdowns(d["AEs"])
  \o << element("subheader", SubheaderProactive) >> \o markdowns(d["Proactive"])
  \o << element("subheader", SubheaderReactive) >> \o markdowns(d["Reactive"])
  \o << element("button", ButtonLabel) >>

\* --------------------------------------------------------------- inputs
Sessions == 1..NumSessions

\* Arguments of a direct call of get_skin_toxicity_guidance: a key, and texts
\* that are not keys (other case, empty, unknown category).  The script looks
\* up the four keys.
LookupInputs ==
  { RadiationTherapy,
    <<99, 104, 101, 109, 111, 116, 104, 101, 114, 97, 112, 121>>,  \* "chemotherapy"
    <<>>,                                                           \* ""
    <<72, 111, 114, 109, 111, 110, 101, 32, 84, 104, 101, 114, 97, 112, 121>> }  \* "Hormone Therapy"

\* A record that is not in the table, for calls of generate_pdf by a caller
\* other than the script.
OtherRecord ==
  [ Proactive |-> << <<77, 111, 105, 115, 116, 117, 114, 105, 122, 101, 114>> >>,  \* "Moisturizer"
    Reactive |-> << <<84, 111, 112, 105, 99, 97, 108, 32, 115, 116, 101, 114, 111, 105, 100>> >>,  \* "Topical steroid"
    AEs |-> << <<82, 97, 115, 104>> >> ]  \* "Rash"

\* Arguments (treatment_type, record) of a direct call of generate_pdf: a
\* category with its own record and with OtherRecord, and another category
\* with OtherRecord.  The script exports the four categories with their own
\* records.
ExportInputs ==
  { <<RadiationTherapy, guidance[RadiationTherapy]>>,
    <<RadiationTherapy, OtherRecord>>,
    <<TargetedTherapy, OtherRecord>> }

\* The day the process starts on.
StartDate == [year |-> 2025, month |-> 6, day |-> 30]

\* ------------------------------------------------------------- the calls
NoCall == [treatment_type |-> <<>>, proactive |-> <<>>, reactive |-> <<>>, aes |-> <<>>]
NoRet == [kind |-> "none", value |-> <<>>]

\* lines 80-104, the call of generate_pdf up to the output: the page is
\* filled in from the arguments a.  Line 85 reads the clock, the only place
\* where the program observes it: midnight may have passed since the last
\* reading.
begin_generate_pdf(s, a) ==
  /\ \E d \in {today} \cup (IF ticks < MaxTicks THEN {NextDay(today)} ELSE {}) :
       /\ today' = d
       /\ ticks' = IF d = today THEN ticks ELSE ticks + 1
       /\ pdf' = [pdf EXCEPT ![s] = page(a.treatment_type, a.proactive, a.reactive, a.aes, d)]
  /\ args' = [args EXCEPT ![s] = a]
  /\ path' = [path EXCEPT ![s] = <<>>]
  /\ ret' = [ret EXCEPT ![s] = NoRet]
  /\ pc' = [pc EXCEPT ![s] = "output"]

\* The arguments of the call on line 144.
script_args(t, d) ==
  [treatment_type |-> t, proactive |-> d["Proactive"], reactive |-> d["Reactive"],
   aes |-> d["AEs"]]

\* A session that has connected: the selectbox is on option 0 and the script
\* has run once on it, without a press of the button; nothing was exported.
Init ==
  /\ fs = <<>>
  /\ today = StartDate
  /\ ticks = 0
  /\ pc = [s \in Sessions |-> "idle"]
  /\ mode = [s \in Sessions |-> "ui"]
  /\ treatment = [s \in Sessions |-> Options[1]]
  /\ clicked = [s \in Sessions |-> FALSE]
  /\ looked = [s \in Sessions |-> Options[1]]
  /\ data = [s \in Sessions |-> get_skin_toxicity_guidance(Options[1])]
  /\ args = [s \in Sessions |-> NoCall]
  /\ pdf = [s \in Sessions |-> <<>>]
  /\ path = [s \in Sessions |-> <<>>]
  /\ ret = [s \in Sessions |-> NoRet]
  /\ download = [s \in Sessions |-> None]
  /\ lastWrite = <<>>
  /\ nops = 0

\* ------------------------------------------------------------ the script
\* The elements on the page of a session after its last script run: the
\* sections and the button when data was truthy (lines 129-143), and the
\* download button when that run reached lines 145-146.
rendered(s) ==
  IF mode[s] = "ui" /\ truthy(data[s])
  THEN sections(data[s]) \o
       (IF download[s] # None THEN << element("download_button", DownloadLabel) >> ELSE <<>>)
  ELSE <<>>

\* Whether st.button (line 143) is on the page of a session: it is the last
\* element of sections(data), emitted exactly when the last thing the thread
\* did was a script run whose data was truthy.
button_shown(s) == mode[s] = "ui" /\ truthy(data[s])

\* lines 126-144, one run of the script with the selectbox on t and
\* st.button(...) returning c: the lookup (line 128), the three sections and
\* the button when data is truthy (129-143), and for a pressed button the
\* call generate_pdf(treatment, data["Proactive"], data["Reactive"],
\* data["AEs"]) (line 144).  The page is rebuilt from nothing in every run.
script_run(s, t, c) ==
  /\ pc[s] = "idle"
  /\ nops < MaxOps
  /\ nops' = nops + 1
  /\ mode' = [mode EXCEPT ![s] = "ui"]
  /\ treatment' = [treatment EXCEPT ![s] = t]
  /\ clicked' = [clicked EXCEPT ![s] = c]
  /\ looked' = [looked EXCEPT ![s] = t]
  /\ download' = [download EXCEPT ![s] = None]
  /\ LET d == get_skin_toxicity_guidance(t) IN
       /\ data' = [data EXCEPT ![s] = d]
       /\ IF truthy(d) /\ c
          THEN begin_generate_pdf(s, script_args(t, d))
          ELSE UNCHANGED << pc, call_locals, today, ticks >>
  /\ UNCHANGED << fs, lastWrite >>

\* line 126: the user picks an option of the selectbox; the script reruns.
Select(s) == \E i \in 1..Len(Options) : script_run(s, Options[i], FALSE)

\* line 143: the user presses the button the last run rendered; the script
\* reruns and st.button returns True in that run.
Click(s) ==
  /\ mode[s] = "ui"
  /\ button_shown(s)
  /\ script_run(s, treatment[s], TRUE)

\* lines 145-146: open(path, "rb") and st.download_button(data=file, ...): the
\* button carries what the file holds when it is read.
ScriptDownload(s) ==
  /\ pc[s] = "download"
  /\ download' = [download EXCEPT ![s] = fs[ret[s].value]]
  /\ pc' = [pc EXCEPT ![s] = "idle"]
  /\ UNCHANGED << shared, mode, treatment, clicked, looked, data, call_locals, lastWrite, nops >>

\* ----------------------------------------------------------- direct calls
\* A caller other than the script calls get_skin_toxicity_guidance(t).
CallLookup(s) ==
  /\ pc[s] = "idle"
  /\ nops < MaxOps
  /\ nops' = nops + 1
  /\ \E t \in LookupInputs :
       LET v == get_skin_toxicity_guidance(t) IN
         /\ data' = [data EXCEPT ![s] = v]
         /\ looked' = [looked EXCEPT ![s] = t]
  /\ mode' = [mode EXCEPT ![s] = "api"]
  /\ UNCHANGED << shared, pc, treatment, clicked, call_locals, download, lastWrite >>

\* A caller other than the script calls generate_pdf(t, proactive, reactive, aes).
CallGeneratePdf(s) ==
  /\ pc[s] = "idle"
  /\ nops < MaxOps
  /\ nops' = nops + 1
  /\ \E a \in ExportInputs :
       begin_generate_pdf(s, [treatment_type |-> a[1], proactive |-> a[2]["Proactive"],
                              reactive |-> a[2]["Reactive"], aes |-> a[2]["AEs"]])
  /\ mode' = [mode EXCEPT ![s] = "api"]
  /\ UNCHANGED << fs, treatment, clicked, looked, data, download, lastWrite >>

\* ------------------------------------------------------------ generate_pdf
\* The call ends by raising exc: nothing is returned, and the script, which
\* catches nothing, ends its run there.
raise(s, exc) ==
  /\ ret' = [ret EXCEPT ![s] = [kind |-> "raise", value |-> exc]]
  /\ pc' = [pc EXCEPT ![s] = "idle"]

\* lines 106-107: the path is derived, the page is encoded and the file is
\* opened for writing, which empties it.  The open fails (OSError) when the
\* working directory cannot be written (permissions, disk full).
OutputOpen(s) ==
  /\ pc[s] = "output"
  /\ path' = [path EXCEPT ![s] = path_of(args[s].treatment_type)]
  /\ IF ~latin1_encodable(pdf[s])
     THEN raise(s, "UnicodeEncodeError") /\ UNCHANGED << fs, lastWrite >>
     ELSE \/ raise(s, "OSError") /\ UNCHANGED << fs, lastWrite >>
          \/ /\ fs' = (path_of(args[s].treatment_type) :> <<>>) @@ fs
             /\ lastWrite' = (path_of(args[s].treatment_type) :> <<>>) @@ lastWrite
             /\ pc' = [pc EXCEPT ![s] = "write"]
             /\ UNCHANGED ret
  /\ UNCHANGED << today, ticks, mode, treatment, clicked, looked, data, args, pdf, download,
                  nops >>

\* lines 107-108: the encoded page is written at offset 0, the file is closed
\* and the path is returned; the write fails (OSError) when the device is
\* full by then.
OutputWrite(s) ==
  /\ pc[s] = "write"
  /\ \/ raise(s, "OSError") /\ UNCHANGED << fs, lastWrite >>
     \/ /\ fs' = [fs EXCEPT ![path[s]] = write_at_0(@, pdf[s])]
        /\ lastWrite' = (path[s] :> pdf[s]) @@ lastWrite
        /\ ret' = [ret EXCEPT ![s] = [kind |-> "path", value |-> path[s]]]
        /\ pc' = [pc EXCEPT ![s] = IF mode[s] = "ui" THEN "download" ELSE "idle"]
  /\ UNCHANGED << today, ticks, mode, treatment, clicked, looked, data, args, pdf, path,
                  download, nops >>

Next ==
  \/ \E s \in Sessions : Select(s)
  \/ \E s \in Sessions : Click(s)
  \/ \E s \in Sessions : ScriptDownload(s)
  \/ \E s \in Sessions : CallLookup(s)
  \/ \E s \in Sessions : CallGeneratePdf(s)
  \/ \E s \in Sessions : OutputOpen(s)
  \/ \E s \in Sessions : OutputWrite(s)

Spec == Init /\ [][Next]_vars

\* =================================================================== claims
\* The closed set of treatment categories.
ClosedSet == {Chemotherapy, TargetedTherapy, RadiationTherapy, Immunotherapy}

\* seq is not empty and no entry occurs twice in it.
NonEmptyNoDuplicate(seq) ==
  /\ Len(seq) > 0
  /\ \A i, j \in 1..Len(seq) : i # j => seq[i] # seq[j]

\* C1: every lookup of a category of the closed set gives a record (not None)
\* whose three sequences AEs, Proactive and Reactive are each non-empty and
\* free of duplicates.
C1_KnownCategoryHasWellFormedRecord ==
  \A s \in Sessions :
    looked[s] \in ClosedSet =>
      /\ data[s] # None
      /\ DOMAIN data[s] = {"AEs", "Proactive", "Reactive"}
      /\ NonEmptyNoDuplicate(data[s]["AEs"])
      /\ NonEmptyNoDuplicate(data[s]["Proactive"])
      /\ NonEmptyNoDuplicate(data[s]["Reactive"])

\* C1 witness: two threads hold the results of lookups of two different
\* categories other than the default one, one by the script and one by a
\* direct call.
C1_Witness ==
  \E s1, s2 \in Sessions :
    /\ looked[s1] = Immunotherapy /\ mode[s1] = "ui" /\ data[s1] # None
    /\ looked[s2] = RadiationTherapy /\ mode[s2] = "api" /\ data[s2] # None

\* C2: a lookup of a text outside the closed set gives None, as a value: it
\* does not end in an exception.
C2_UnknownCategoryGivesNone ==
  \A s \in Sessions : looked[s] \notin ClosedSet => data[s] = None

\* C2 witness: a direct call has looked up "chemotherapy" (lower case) and
\* another one the empty text, and both hold None.
C2_Witness ==
  \E s1, s2 \in Sessions :
    /\ looked[s1] = lower(Chemotherapy) /\ data[s1] = None
    /\ looked[s2] = <<>> /\ data[s2] = None

C9_ChemotherapyAdverseEvents ==
  \A s \in Sessions :
    looked[s] = Chemotherapy =>
      /\ data[s] # None
      /\ data[s]["AEs"] =
           << <<88, 101, 114, 111, 115, 105, 115>>,                                              \* "Xerosis"
              <<80, 114, 117, 114, 105, 116, 117, 115>>,                                         \* "Pruritus"
              <<80, 104, 111, 116, 111, 115, 101, 110, 115, 105, 116, 105, 118, 105, 116, 121>>, \* "Photosensitivity"
              <<65, 108, 111, 112, 101, 99, 105, 97>>,                                           \* "Alopecia"
              <<72, 70, 83>> >>                                                                  \* "HFS"

\* C9 witness: a session went to another category and came back to
\* Chemotherapy, so its record comes from a lookup made by a rerun.
C9_Witness ==
  \E s \in Sessions :
    /\ nops = MaxOps /\ looked[s] = Chemotherapy /\ mode[s] = "ui"
    /\ \A s2 \in Sessions \ {s} : looked[s2] = Chemotherapy /\ mode[s2] = "ui" /\ ~clicked[s2]
    /\ ~clicked[s] /\ Len(data[s]["AEs"]) = 5

\* ------------------------------------------------------ claims on the export
\* sub occurs in line.
Contains(line, sub) ==
  \E k \in 0..(Len(line) - Len(sub)) : SubSeq(line, k + 1, k + Len(sub)) = sub

\* line starts with sub.
StartsWith(line, sub) == Len(line) >= Len(sub) /\ SubSeq(line, 1, Len(sub)) = sub

\* A date YYYY-MM-DD occurs in line.
ContainsIsoDate(line) ==
  \E k \in 0..(Len(line) - 10) :
    \A i \in 1..10 : IF i \in {5, 8} THEN line[k + i] = 45 ELSE line[k + i] \in 48..57

\* The lines of text of a document, in order (what reading it back gives).
TextLines(doc) ==
  LET cells == SelectSeq(doc, LAMBDA c : c.op = "cell")
  IN  [i \in 1..Len(cells) |-> cells[i].txt]

\* The paths of the four categories, written out.
ExpectedPath ==
  (Chemotherapy :> <<115, 107, 105, 110, 95, 116, 111, 120, 105, 99, 105, 116, 121, 95, 99, 104, 101, 109, 111, 116, 104, 101, 114, 97, 112, 121, 46, 112, 100, 102>>) @@  \* "skin_toxicity_chemotherapy.pdf"
  (TargetedTherapy :> <<115, 107, 105, 110, 95, 116, 111, 120, 105, 99, 105, 116, 121, 95, 116, 97, 114, 103, 101, 116, 101, 100, 95, 116, 104, 101, 114, 97, 112, 121, 46, 112, 100, 102>>) @@  \* "skin_toxicity_targeted_therapy.pdf"
  (RadiationTherapy :> <<115, 107, 105, 110, 95, 116, 111, 120, 105, 99, 105, 116, 121, 95, 114, 97, 100, 105, 97, 116, 105, 111, 110, 95, 116, 104, 101, 114, 97, 112, 121, 46, 112, 100, 102>>) @@  \* "skin_toxicity_radiation_therapy.pdf"
  (Immunotherapy :> <<115, 107, 105, 110, 95, 116, 111, 120, 105, 99, 105, 116, 121, 95, 105, 109, 109, 117, 110, 111, 116, 104, 101, 114, 97, 112, 121, 46, 112, 100, 102>>)  \* "skin_toxicity_immunotherapy.pdf"

\* The layout of the document of category t with record r: title line,
\* date line, then each header followed by the dash-prefixed entries of its
\* list in the order of the record, and nothing else.
Layout(lines, t, r) ==
  LET n1 == Len(r["AEs"])
      n2 == Len(r["Proactive"])
      n3 == Len(r["Reactive"])
  IN  /\ Len(lines) = 5 + n1 + n2 + n3
      /\ Contains(lines[1], t)
      /\ ContainsIsoDate(lines[2])
      /\ Contains(lines[3], <<76, 105, 107, 101, 108, 121, 32, 65, 100, 118, 101, 114, 115, 101, 32, 69, 118, 101, 110, 116, 115, 58>>)  \* "Likely Adverse Events:"
      /\ \A i \in 1..n1 : lines[3 + i] = <<45, 32>> \o r["AEs"][i]
      /\ Contains(lines[4 + n1], <<80, 114, 111, 97, 99, 116, 105, 118, 101, 32, 77, 101, 97, 115, 117, 114, 101, 115, 58>>)  \* "Proactive Measures:"
      /\ \A i \in 1..n2 : lines[4 + n1 + i] = <<45, 32>> \o r["Proactive"][i]
      /\ Contains(lines[5 + n1 + n2], <<82, 101, 97, 99, 116, 105, 118, 101, 32, 77, 101, 97, 115, 117, 114, 101, 115, 58>>)  \* "Reactive Measures:"
      /\ \A i \in 1..n3 : lines[5 + n1 + n2 + i] = <<45, 32>> \o r["Reactive"][i]

\* A call of generate_pdf by thread s has ended, and not because the
\* destination could not be written.
Ended(s) ==
  /\ ret[s].kind # "none"
  /\ ~(ret[s].kind = "raise" /\ ret[s].value = "OSError")

\* Thread s called generate_pdf with category t and the record of t.
ExportsOwnRecord(s, t) == args[s] = script_args(t, guidance[t])

\* C3: for every category of the closed set, the export of its record
\* produces a document that reads back as the title line, the date line and
\* the three headers, each followed by the dash-prefixed entries of its list
\* in record order.
C3_ExportRoundTrip ==
  \A s \in Sessions : \A t \in ClosedSet :
    (Ended(s) /\ ExportsOwnRecord(s, t)) =>
      /\ ret[s].kind = "path"
      /\ Layout(TextLines(pdf[s]), t, guidance[t])

\* The part of C3 the export does deliver: a call that returns a path has
\* written a document with that layout.
ReturnedDocumentHasLayout ==
  \A s \in Sessions :
    ret[s].kind = "path" =>
      Layout(TextLines(pdf[s]), args[s].treatment_type,
             [AEs |-> args[s].aes, Proactive |-> args[s].proactive, Reactive |-> args[s].reactive])

\* C4: the export of the Immunotherapy record for 2025-07-01 produces a
\* document whose second line contains "2025-07-01", whatever the current
\* date is, and whose adverse-events section has exactly 3 dash-prefixed
\* entries.
C4_ImmunotherapyDateLine ==
  \A s \in Sessions :
    (Ended(s) /\ ExportsOwnRecord(s, Immunotherapy)) =>
      LET lines == TextLines(pdf[s]) IN
        /\ ret[s].kind = "path"
        /\ Contains(lines[2], <<50, 48, 50, 53, 45, 48, 55, 45, 48, 49>>)  \* "2025-07-01"
        /\ \A i \in 4..6 : StartsWith(lines[i], <<45, 32>>)
        /\ ~StartsWith(lines[7], <<45, 32>>)

\* C5: the path a call of generate_pdf returns depends on the category alone
\* and is "skin_toxicity_" + the category in lower case with "_" for every
\* space + ".pdf": skin_toxicity_radiation_therapy.pdf for "Radiation
\* Therapy", skin_toxicity_targeted_therapy.pdf for "Targeted Therapy".
C5_PathFromCategory ==
  /\ \A s \in Sessions :
       ret[s].kind = "path" =>
         /\ args[s].treatment_type \in ClosedSet
         /\ ret[s].value = ExpectedPath[args[s].treatment_type]
  /\ \A s1, s2 \in Sessions :
       ( /\ ret[s1].kind = "path" /\ ret[s2].kind = "path"
         /\ args[s1].treatment_type = args[s2].treatment_type ) =>
         ret[s1].value = ret[s2].value

\* C5 witness: two calls with the same category, different records and
\* different dates have both returned, and a call for "Targeted Therapy" is
\* among the returned ones in another behaviour (see C5_WitnessTargeted).
C5_Witness ==
  \E s1, s2 \in Sessions :
    /\ s1 # s2
    /\ ret[s1].kind = "path" /\ ret[s2].kind = "path"
    /\ args[s1].treatment_type = RadiationTherapy
    /\ args[s2].treatment_type = RadiationTherapy
    /\ args[s1].aes # args[s2].aes
    /\ pdf[s1][2] # pdf[s2][2]

\* A call for "Targeted Therapy" and one for "Radiation Therapy" have returned.
C5_WitnessTargeted ==
  \E s1, s2 \in Sessions :
    /\ ret[s1].kind = "path" /\ args[s1].treatment_type = TargetedTherapy
    /\ ret[s2].kind = "path" /\ args[s2].treatment_type = RadiationTherapy

\* C6: whenever no export is under way, every file in the directory is at the
\* path of a category, no category has a second file, and each file holds
\* what the last write to it wrote, also when two exports of the same
\* category overlapped.
C6_LastWriterWins ==
  (\A s \in Sessions : pc[s] \notin {"output", "write"}) =>
    /\ DOMAIN fs \subseteq {ExpectedPath[c] : c \in ClosedSet}
    /\ \A c \in ClosedSet :
         Cardinality({p \in DOMAIN fs : Contains(p, replace(lower(c), 32, 95))}) <= 1
    /\ \A p \in DOMAIN fs : fs[p] = lastWrite[p]

\* The part of C6 that holds with overlapping exports too: the files are at
\* the paths of the categories, one per category.
OneFilePerCategory ==
  /\ DOMAIN fs \subseteq {ExpectedPath[c] : c \in ClosedSet}
  /\ DOMAIN fs = DOMAIN lastWrite

\* C10: a step of an export of category c changes no file other than the one
\* at the path of c and removes none; the four categories have four paths;
\* and the export changes neither its arguments nor the record the caller
\* holds.
C10_ExportFrame ==
  [][ /\ DOMAIN fs \subseteq DOMAIN fs'
      /\ \A p \in DOMAIN fs' :
           (p \notin DOMAIN fs \/ fs'[p] # fs[p]) =>
             \E s \in Sessions :
               /\ pc[s] \in {"output", "write"} /\ pc'[s] # pc[s]
               /\ args[s].treatment_type \in ClosedSet
               /\ p = ExpectedPath[args[s].treatment_type]
      /\ Cardinality({path_of(c) : c \in ClosedSet}) = 4
      /\ \A s \in Sessions :
           pc[s] \in {"output", "write", "download"} =>
             /\ args'[s] = args[s]
             /\ data'[s] = data[s]
    ]_vars

\* C10 witness: the files of two categories exist side by side, each with the
\* document of its own export.
C10_Witness ==
  \E s1, s2 \in Sessions :
    /\ ret[s1].kind = "path" /\ ret[s2].kind = "path"
    /\ ret[s1].value # ret[s2].value
    /\ fs[ret[s1].value] = pdf[s1]
    /\ fs[ret[s2].value] = pdf[s2]
====
